---------------------------- MODULE Spec2Model ----------------------------
(***************************************************************************)
(* Currency conversion API (src/src/server.py): a Flask application with   *)
(* a module-level rate cache, rate_cache, shared by every request thread.  *)
(*                                                                         *)
(* Each request is served by a thread that walks through its handler.  A   *)
(* step of a thread is one access to the shared dictionary rate_cache (or  *)
(* the network request); the statements between two such accesses touch    *)
(* only the thread's locals and are folded into the step that precedes     *)
(* them.  Program counters are named after the source line they stand at.  *)
(*                                                                         *)
(* Representation.                                                         *)
(*   - A Python dict is a TLA+ function; {} is the function with empty     *)
(*     domain.                                                             *)
(*   - An optional value (None or a value) is a set with no or one         *)
(*     element.                                                            *)
(*   - A rate (a float) is an integer number of 1/RateOne units, so the    *)
(*     float 1.0 is RateOne.                                               *)
(*   - An amount is a record [kind, val]: kind is "num", "nan" or "inf",   *)
(*     val the value in 1/10^4 units.                                      *)
(*   - The provider payload is a JSON object with the optional keys        *)
(*     result, error-type, base_code and conversion_rates.                 *)
(***************************************************************************)
EXTENDS Integers, Sequences, FiniteSets, TLC

(***************************************************************************)
(* Bounds of the model.                                                    *)
(***************************************************************************)
\* Value of time.time() when the server starts (epoch seconds, scaled down;
\* it is larger than CACHE_DURATION as every real epoch time is).
StartTime == 100
\* The clock advances by this much at a time.
TickStep == 30
\* Number of times the clock advances.
MaxTicks == 2

(***************************************************************************)
(* Program constants.                                                      *)
(***************************************************************************)
CACHE_DURATION == 60
\* The float 1.0 in rate units.
RateOne == 10
\* round(converted_amount, 4) and round(rate, 6)
AmountDigits == 4
RateDigits == 6

\* The request threads of the server: two, the least that race.
Threads == {1, 2}

(***************************************************************************)
(* Python values.                                                          *)
(***************************************************************************)
None == {}
Some(v) == {v}
TheValue(o) == CHOOSE v \in o : TRUE

EmptyDict == [k \in {} |-> 0]
DictSet(d, k, v) == [x \in (DOMAIN d) \cup {k} |-> IF x = k THEN v ELSE d[x]]
\* d.get(k): an optional value
DictGet(d, k) == IF k \in DOMAIN d THEN Some(d[k]) ELSE None
\* d.get(k, default)
DictGetDefault(d, k, default) == IF k \in DOMAIN d THEN d[k] ELSE default
\* truth value of a dict
DictTruthy(d) == DOMAIN d # {}
\* A formatted string is the sequence of its pieces; it is empty when every
\* piece is.  Truth value of an optional string:
StrTruthy(o) == o # None /\ \E i \in DOMAIN TheValue(o) : TheValue(o)[i] # ""

RECURSIVE Pow10(_)
Pow10(n) == IF n = 0 THEN 1 ELSE 10 * Pow10(n - 1)


(***************************************************************************)
(* float(amount_str), for the decimal literals [+-]digits[.digits] with at *)
(* most AmountDigits fraction digits and for nan, inf, -inf.  Every other  *)
(* string of the model's inputs makes float() raise ValueError.            *)
(***************************************************************************)
Digits == {"0", "1", "2", "3", "4", "5", "6", "7", "8", "9"}
DigitVal(c) ==
    CASE c = "0" -> 0 [] c = "1" -> 1 [] c = "2" -> 2 [] c = "3" -> 3
      [] c = "4" -> 4 [] c = "5" -> 5 [] c = "6" -> 6 [] c = "7" -> 7
      [] c = "8" -> 8 [] c = "9" -> 9

IsDigits(s) == Len(s) > 0 /\ \A i \in 1..Len(s) : s[i] \in Digits

RECURSIVE DigitsVal(_)
DigitsVal(s) ==
    IF Len(s) = 0 THEN 0
    ELSE 10 * DigitsVal(SubSeq(s, 1, Len(s) - 1)) + DigitVal(s[Len(s)])

DotAt(s) == {i \in 1..Len(s) : s[i] = "."}

\* an unsigned decimal literal, as [ok, val] with val in 1/10^AmountDigits units
ParseUnsigned(s) ==
    IF IsDigits(s) THEN [ok |-> TRUE, val |-> DigitsVal(s) * Pow10(AmountDigits)]
    ELSE IF Cardinality(DotAt(s)) = 1
    THEN LET d == CHOOSE i \in DotAt(s) : TRUE
             ip == SubSeq(s, 1, d - 1)
             fp == SubSeq(s, d + 1, Len(s))
         IN  IF IsDigits(ip) /\ IsDigits(fp) /\ Len(fp) <= AmountDigits
             THEN [ok |-> TRUE,
                   val |-> DigitsVal(ip) * Pow10(AmountDigits)
                           + DigitsVal(fp) * Pow10(AmountDigits - Len(fp))]
             ELSE [ok |-> FALSE, val |-> 0]
    ELSE [ok |-> FALSE, val |-> 0]

NaN == [kind |-> "nan", val |-> 0]
Inf == [kind |-> "inf", val |-> 0]
NegInf == [kind |-> "-inf", val |-> 0]
Num(v) == [kind |-> "num", val |-> v]

\* float(s): [ok |-> FALSE] stands for ValueError
ParseFloat(s) ==
    IF s = <<"n", "a", "n">> THEN [ok |-> TRUE, value |-> NaN]
    ELSE IF s = <<"i", "n", "f">> THEN [ok |-> TRUE, value |-> Inf]
    ELSE IF s = <<"-", "i", "n", "f">> THEN [ok |-> TRUE, value |-> NegInf]
    ELSE IF Len(s) > 0 /\ s[1] \in {"-", "+"}
    THEN LET u == ParseUnsigned(Tail(s))
         IN  [ok |-> u.ok,
              value |-> Num(IF s[1] = "-" THEN 0 - u.val ELSE u.val)]
    ELSE LET u == ParseUnsigned(s)
         IN  [ok |-> u.ok, value |-> Num(u.val)]

\* amount <= 0 on floats: every comparison with nan is False
AmountLeqZero(a) ==
    \/ a.kind = "-inf"
    \/ a.kind = "num" /\ a.val <= 0

\* str.upper() on the currency codes of the model's inputs
Upper(s) ==
    CASE s = "usd" -> "USD"
      [] s = "eur" -> "EUR"
      [] OTHER -> s

(***************************************************************************)
(* The arithmetic of convert_currency.  Floats are taken as the exact      *)
(* rationals they stand for; round(x, n) rounds half to even.              *)
(***************************************************************************)
\* num / den rounded half to even, for num >= 0 and den > 0
RoundHalfEven(num, den) ==
    LET q == num \div den
        r == num % den
    IN  IF 2 * r < den THEN q
        ELSE IF 2 * r > den THEN q + 1
        ELSE IF q % 2 = 0 THEN q ELSE q + 1

\* The conversion as it would be if the amount were not brought to the base
\* currency first: amount * rate_to_target.
ConvertedAmountNoBase(amount, rate_from_usd, rate_to_target) ==
    IF amount.kind = "num"
    THEN Num(RoundHalfEven(amount.val * rate_to_target, RateOne))
    ELSE IF amount.kind = "nan" \/ rate_to_target = 0 THEN NaN
    ELSE amount

\* round((amount / rate_from_usd) * rate_to_target, 4), in 1/10^4 units
ConvertedAmount(amount, rate_from_usd, rate_to_target) ==
    IF amount.kind = "num"
    THEN Num(RoundHalfEven(amount.val * rate_to_target, rate_from_usd))
    ELSE IF amount.kind = "nan" \/ rate_to_target = 0 THEN NaN
    ELSE amount

\* round(rate_to_target / rate_from_usd, 6), in 1/10^6 units
RateUsed(rate_from_usd, rate_to_target) ==
    RoundHalfEven(rate_to_target * Pow10(RateDigits), rate_from_usd)


(***************************************************************************)
(* Inputs: the provider's answers and the requests.                        *)
(***************************************************************************)
Payload(result, error_type, base_code, conversion_rates) ==
    [result |-> result, error_type |-> error_type, base_code |-> base_code,
     conversion_rates |-> conversion_rates]

\* Provider payloads that the fetch accepts.
GoodPayloads ==
    { Payload(Some("success"), None, Some("USD"),
              Some([c \in {"USD", "EUR"} |-> IF c = "USD" THEN 10 ELSE 9])),
      Payload(Some("success"), None, None,
              Some([c \in {"EUR", "GBP"} |-> IF c = "EUR" THEN 0 ELSE 8])),
      Payload(Some("success"), None, Some("EUR"),
              Some([c \in {"EUR", "USD"} |-> IF c = "EUR" THEN 10 ELSE 11])),
      Payload(Some("success"), None, Some("EUR"),
              Some([c \in {"EUR", "GBP"} |-> IF c = "EUR" THEN 10 ELSE 8])) }

\* Provider payloads that the fetch rejects.
BadPayloads ==
    { Payload(Some("error"), Some("invalid-key"), None, None),
      Payload(Some("error"), None, Some("USD"), Some([c \in {"EUR"} |-> 7])),
      Payload(None, None, Some("USD"), Some([c \in {"EUR"} |-> 6])),
      Payload(Some("success"), None, Some("USD"), None),
      Payload(Some("success"), None, Some("USD"), Some(EmptyDict)) }

\* What requests.get / raise_for_status / response.json can end in: a
\* RequestException (connection error, timeout, bad status) or a payload.
Failure(e) == [kind |-> "exception", e |-> e, data |-> EmptyDict]
Answer(p) == [kind |-> "json", e |-> "", data |-> p]

\* The outcomes of the sequential specification: all of them.
AllOutcomes ==
    { Failure(e) : e \in {"ConnectionError", "Timeout", "HTTPError"} }
    \cup { Answer(p) : p \in GoodPayloads \cup BadPayloads }

\* The outcomes of the concurrent specification: some of each kind.
Outcomes ==
    { Failure("Timeout"),
      Answer(Payload(Some("error"), None, Some("USD"), Some([c \in {"EUR"} |-> 7]))),
      Answer(Payload(Some("success"), None, Some("USD"), None)),
      Answer(Payload(Some("success"), None, Some("USD"),
                     Some([c \in {"USD", "EUR"} |-> IF c = "USD" THEN 10 ELSE 9]))),
      Answer(Payload(Some("success"), None, Some("EUR"),
                     Some([c \in {"EUR", "GBP"} |-> IF c = "EUR" THEN 10 ELSE 8]))) }

NoArgs == [from |-> None, to |-> None, amount |-> None]

FromArgs == {None, Some(""), Some("usd"), Some("EUR"), Some("XYZ")}
ToArgs == {None, Some(""), Some("eur"), Some("USD"), Some("XYZ")}
AmountArgs ==
    { None, Some(<<>>), Some(<<"a", "b", "c">>), Some(<<"-", "5">>),
      Some(<<"0">>), Some(<<"n", "a", "n">>), Some(<<"1", "0", "0">>),
      Some(<<"2", ".", "5">>) }

ConvertRequests(F, T, A) ==
    { [route |-> "/convert", args |-> [from |-> f, to |-> t, amount |-> a]]
        : f \in F, t \in T, a \in A }

\* The requests of the concurrent specification: /health and the two that
\* read the cache.
Requests ==
    { [route |-> "/health", args |-> NoArgs], [route |-> "/rates", args |-> NoArgs] }
    \cup ConvertRequests({Some("usd")}, {Some("eur")}, {Some(<<"1", "0", "0">>)})

\* The requests of the sequential specification: every combination.
AllRequests ==
    { [route |-> "/", args |-> NoArgs],
      [route |-> "/health", args |-> NoArgs], [route |-> "/rates", args |-> NoArgs] }
    \cup ConvertRequests(FromArgs, ToArgs, AmountArgs)

(***************************************************************************)
(* Responses.                                                              *)
(***************************************************************************)
\* error_response(message, status_code)
error_response(message, status_code) ==
    [status_code |-> status_code,
     body |-> [status |-> "error", message |-> message]]

NoResponse == [status_code |-> 0, body |-> [status |-> "none"]]

\* what Flask answers when a view function lets an exception escape
UnhandledResponse(e) ==
    [status_code |-> 500,
     body |-> [status |-> "error", message |-> <<"Internal Server Error (unhandled): ", e>>]]

\* the two values get_exchange_rates returns, or the exception it lets escape
ReturnValue(rates, error) == [rates |-> rates, error |-> error, raised |-> None]
Raised(e) == [rates |-> EmptyDict, error |-> None, raised |-> Some(e)]
NoReturn == [rates |-> EmptyDict, error |-> None, raised |-> Some("(running)")]


(***************************************************************************)
(* State.                                                                  *)
(***************************************************************************)
VARIABLES
    rate_cache,     \* the module-level dict: keys among "timestamp", "rates"
    clock,          \* what time.time() returns
    pc,             \* per thread: where the thread stands
    request,        \* per thread: the request being served
    current_time,   \* per thread: the local of get_exchange_rates
    new_rates,      \* per thread: the local of get_exchange_rates
    error_msg,      \* per thread: the local of get_exchange_rates
    returned,       \* per thread: what get_exchange_rates returned
    response,       \* per thread: the response of the last request
    fetches,        \* per thread: network requests made by the running call
    path,           \* history, per thread: the branch the running call took
    outcome,        \* history, per thread: how the fetch of the running call
                    \* ended, None when it made none
    observed,       \* history, per thread: rate_cache as the running call
                    \* last tested it (line 31 or line 71)
    cached_from,    \* history: start time of the call that fetched the table
                    \* stored under rate_cache['rates']
    returned_from   \* history, per thread: start time of the call that
                    \* fetched the table in returned

vars == <<rate_cache, clock, pc, request, current_time, new_rates, error_msg,
          returned, response, fetches, path, outcome, observed, cached_from,
          returned_from>>

locals == <<current_time, new_rates, error_msg>>

NoRequest == [route |-> "", args |-> NoArgs]

Init ==
    /\ rate_cache = EmptyDict
    /\ clock = StartTime
    /\ pc = [t \in Threads |-> "idle"]
    /\ request = [t \in Threads |-> NoRequest]
    /\ current_time = [t \in Threads |-> 0]
    /\ new_rates = [t \in Threads |-> EmptyDict]
    /\ error_msg = [t \in Threads |-> None]
    /\ returned = [t \in Threads |-> NoReturn]
    /\ response = [t \in Threads |-> NoResponse]
    /\ fetches = [t \in Threads |-> 0]
    /\ path = [t \in Threads |-> "none"]
    /\ outcome = [t \in Threads |-> None]
    /\ observed = [t \in Threads |-> None]
    /\ cached_from = None
    /\ returned_from = [t \in Threads |-> None]

(***************************************************************************)
(* The clock.                                                              *)
(***************************************************************************)
Tick ==
    /\ clock < StartTime + MaxTicks * TickStep
    /\ clock' = clock + TickStep
    /\ UNCHANGED <<rate_cache, pc, request, current_time, new_rates, error_msg,
                   returned, response, fetches, outcome, path, observed, cached_from,
                   returned_from>>

(***************************************************************************)
(* convert_currency, step 1: parsing and validating the parameters.        *)
(***************************************************************************)
\* request.args.get(name, '')
ArgOrEmpty(o) == IF o = None THEN "" ELSE TheValue(o)

from_currency(args) == Upper(ArgOrEmpty(args.from))
to_currency(args) == Upper(ArgOrEmpty(args.to))
\* truth value of amount_str
AmountStrTruthy(o) == o # None /\ o # Some(<<>>)

\* The response of the validation, or None when the parameters pass.
Validate(args) ==
    IF ~(from_currency(args) # "" /\ to_currency(args) # "" /\ AmountStrTruthy(args.amount))
    THEN Some(error_response(
             <<"Missing required query parameters: 'from', 'to', and 'amount'.">>, 400))
    ELSE LET f == ParseFloat(TheValue(args.amount))
         IN  IF ~f.ok
             THEN Some(error_response(
                      <<"'amount' parameter must be a valid number.">>, 400))
             ELSE IF AmountLeqZero(f.value)
             THEN Some(error_response(<<"Amount must be a positive number.">>, 400))
             ELSE None

\* the local amount, for parameters that pass the validation
amount(args) == ParseFloat(TheValue(args.amount)).value


(***************************************************************************)
(* A request arrives at an idle thread.  A path with no route is answered  *)
(* 404 by the framework; /health answers at once; /convert validates its   *)
(* parameters and answers 400 or goes on; what goes on calls               *)
(* get_exchange_rates, which reads the clock (line 28).                    *)
(***************************************************************************)
HealthResponse ==
    [status_code |-> 200,
     body |-> [status |-> "ok", service |-> "Currency Conversion API"]]

\* The routes of the application are /health, /rates and /convert: the
\* framework answers any other path with its 404 page.
NotFoundResponse ==
    [status_code |-> 404, body |-> [status |-> "none", html |-> "404 Not Found"]]

\* The answers as they would be if /convert validated its parameters only
\* after it has called get_exchange_rates.
EarlyAnswerLate(r) ==
    IF r.route = "/" THEN Some(NotFoundResponse)
    ELSE IF r.route = "/health" THEN Some(HealthResponse)
    ELSE None

\* The answer a request gets before get_exchange_rates is called, or None
\* when the handler goes on to call it.
EarlyAnswer(r) ==
    IF r.route = "/" THEN Some(NotFoundResponse)
    ELSE IF r.route = "/health" THEN Some(HealthResponse)
    ELSE IF r.route = "/convert" THEN Validate(r.args)
    ELSE None

Begin(t, r) ==
    /\ pc[t] \in {"idle", "done"}
    /\ request' = [request EXCEPT ![t] = r]
    /\ new_rates' = [new_rates EXCEPT ![t] = EmptyDict]
    /\ error_msg' = [error_msg EXCEPT ![t] = None]
    /\ returned' = [returned EXCEPT ![t] = NoReturn]
    /\ fetches' = [fetches EXCEPT ![t] = 0]
    /\ path' = [path EXCEPT ![t] = "none"]
    /\ outcome' = [outcome EXCEPT ![t] = None]
    /\ observed' = [observed EXCEPT ![t] = None]
    /\ returned_from' = [returned_from EXCEPT ![t] = None]
    /\ LET answer == EarlyAnswer(r)
       IN  IF answer # None
           THEN /\ response' = [response EXCEPT ![t] = TheValue(answer)]
                /\ pc' = [pc EXCEPT ![t] = "done"]
                /\ current_time' = [current_time EXCEPT ![t] = 0]
           ELSE /\ response' = [response EXCEPT ![t] = NoResponse]
                /\ pc' = [pc EXCEPT ![t] = "L31"]
                /\ current_time' = [current_time EXCEPT ![t] = clock]
    /\ UNCHANGED <<rate_cache, clock, cached_from>>

(***************************************************************************)
(* get_exchange_rates.                                                     *)
(***************************************************************************)
\* The test of line 31 as it would be without the duration: a snapshot is
\* fresh only before its own timestamp.
CacheValidNoDuration(cache, now) ==
    DictTruthy(cache) /\ now < DictGetDefault(cache, "timestamp", 0)

\* line 31: the cache holds something and it is younger than CACHE_DURATION.
\* The two reads of rate_cache in the condition are taken together: with
\* current_time >= CACHE_DURATION, a cache emptied between them makes the
\* condition false, as an empty cache does.
CacheValid(cache, now) ==
    DictTruthy(cache) /\ now < DictGetDefault(cache, "timestamp", 0) + CACHE_DURATION

Return(t, rates, error, from, branch) ==
    /\ returned' = [returned EXCEPT ![t] = ReturnValue(rates, error)]
    /\ returned_from' = [returned_from EXCEPT ![t] = from]
    /\ path' = [path EXCEPT ![t] = branch]
    /\ pc' = [pc EXCEPT ![t] = "ret"]

Raise(t, e, branch) ==
    /\ returned' = [returned EXCEPT ![t] = Raised(e)]
    /\ returned_from' = [returned_from EXCEPT ![t] = None]
    /\ path' = [path EXCEPT ![t] = branch]
    /\ pc' = [pc EXCEPT ![t] = "ret"]

\* ReturnCached as it would be if the cached table were returned together
\* with the error message of the failed fetch.
ReturnCachedWithError(t, branch) ==
    IF "rates" \in DOMAIN rate_cache
    THEN Return(t, rate_cache["rates"], error_msg[t], cached_from, branch)
    ELSE Raise(t, "KeyError", branch)

\* rate_cache['rates'], returned with no error, or KeyError
ReturnCached(t, branch) ==
    IF "rates" \in DOMAIN rate_cache
    THEN Return(t, rate_cache["rates"], None, cached_from, branch)
    ELSE Raise(t, "KeyError", branch)

\* line 31
CheckCache(t) ==
    /\ pc[t] = "L31"
    /\ pc' = [pc EXCEPT ![t] = IF CacheValid(rate_cache, current_time[t])
                                 THEN "L33" ELSE "L38"]
    /\ observed' = [observed EXCEPT ![t] = Some(rate_cache)]
    /\ UNCHANGED <<rate_cache, clock, request, locals, returned, response,
                   fetches, outcome, path, cached_from, returned_from>>

\* line 33
ServeCached(t) ==
    /\ pc[t] = "L33"
    /\ ReturnCached(t, "hit")
    /\ UNCHANGED <<rate_cache, clock, request, locals, response, fetches, outcome, observed,
                   cached_from>>

\* line 56: new_rates[base_code] = 1.0
WithBase(rates, base_code) == DictSet(rates, base_code, RateOne)

\* data.get('conversion_rates', {}) and data.get('base_code', 'USD')
ConversionRates(data) ==
    IF data.conversion_rates = None THEN EmptyDict ELSE TheValue(data.conversion_rates)
BaseCode(data) == IF data.base_code = None THEN "USD" ELSE TheValue(data.base_code)

\* PayloadCheck without the test of line 42
PayloadCheckNoResult(data) ==
    IF ~DictTruthy(ConversionRates(data)) THEN "no-rates" ELSE "ok"

\* lines 42 and 50: the two tests a payload has to pass
PayloadCheck(data) ==
    IF data.result # Some("success") THEN "non-success"
    ELSE IF ~DictTruthy(ConversionRates(data)) THEN "no-rates"
    ELSE "ok"

\* lines 43, 51 and 67: the error messages
PayloadError(data) ==
    IF data.result # Some("success")
    THEN <<"API returned non-success result: ",
           IF data.error_type = None THEN "Unknown Error" ELSE TheValue(data.error_type)>>
    ELSE <<"API response did not contain conversion rates.">>
FetchError(e) == <<"Error fetching exchange rates from API: ", e>>

\* lines 38 to 56, and the except clause's line 67: the network request and
\* what is made of its outcome, up to the next access to rate_cache
Fetch(t, o) ==
    /\ pc[t] = "L38"
    /\ fetches' = [fetches EXCEPT ![t] = @ + 1]
    /\ outcome' = [outcome EXCEPT ![t] = Some(o)]
    /\ IF o.kind = "exception"
       THEN /\ error_msg' = [error_msg EXCEPT ![t] = Some(FetchError(o.e))]
            /\ pc' = [pc EXCEPT ![t] = "L71"]
            /\ UNCHANGED <<new_rates, returned, returned_from, path>>
       ELSE IF PayloadCheck(o.data) # "ok"
       THEN /\ error_msg' = [error_msg EXCEPT ![t] = Some(PayloadError(o.data))]
            /\ Return(t, EmptyDict, Some(PayloadError(o.data)), None, PayloadCheck(o.data))
            /\ UNCHANGED new_rates
       ELSE /\ new_rates' = [new_rates EXCEPT ![t] =
                                 WithBase(ConversionRates(o.data), BaseCode(o.data))]
            /\ pc' = [pc EXCEPT ![t] = "L59"]
            /\ UNCHANGED <<error_msg, returned, returned_from, path>>
    /\ UNCHANGED <<rate_cache, clock, request, current_time, response, observed,
                   cached_from>>

\* line 59: rate_cache.clear()
ClearCache(t) ==
    /\ pc[t] = "L59"
    /\ rate_cache' = EmptyDict
    /\ cached_from' = None
    /\ pc' = [pc EXCEPT ![t] = "L60"]
    /\ UNCHANGED <<clock, request, locals, returned, response, fetches, outcome, path,
                   observed, returned_from>>

\* line 60: rate_cache['timestamp'] = current_time
StoreTimestamp(t) ==
    /\ pc[t] = "L60"
    /\ rate_cache' = DictSet(rate_cache, "timestamp", current_time[t])
    /\ pc' = [pc EXCEPT ![t] = "L61"]
    /\ UNCHANGED <<clock, request, locals, returned, response, fetches, outcome, path,
                   observed, cached_from, returned_from>>

\* lines 61 to 64: rate_cache['rates'] = new_rates; return new_rates, None
StoreRates(t) ==
    /\ pc[t] = "L61"
    /\ rate_cache' = DictSet(rate_cache, "rates", new_rates[t])
    /\ cached_from' = Some(current_time[t])
    /\ Return(t, new_rates[t], None, Some(current_time[t]), "fetched")
    /\ UNCHANGED <<clock, request, locals, response, fetches, outcome, observed>>

\* FallbackPossible without the test of line 71
FallbackAlways(cache) == TRUE

\* line 71: if rate_cache
FallbackPossible(cache) == DictTruthy(cache)

\* line 71, and line 75 when there is nothing to fall back to
CheckFallback(t) ==
    /\ pc[t] = "L71"
    /\ observed' = [observed EXCEPT ![t] = Some(rate_cache)]
    /\ IF FallbackPossible(rate_cache)
       THEN /\ pc' = [pc EXCEPT ![t] = "L73"]
            /\ UNCHANGED <<returned, returned_from, path>>
       ELSE Return(t, EmptyDict, error_msg[t], None, "failed")
    /\ UNCHANGED <<rate_cache, clock, request, locals, response, fetches, outcome, cached_from>>

\* ServeStale as it would be if serving the stale table renewed its
\* freshness: the timestamp of the snapshot is set to the time of the call.
ServeStaleRenewed(t) ==
    /\ pc[t] = "L73"
    /\ ReturnCached(t, "stale")
    /\ rate_cache' = IF "timestamp" \in DOMAIN rate_cache
                     THEN DictSet(rate_cache, "timestamp", current_time[t])
                     ELSE rate_cache
    /\ UNCHANGED <<clock, request, locals, response, fetches, outcome, observed,
                   cached_from>>

\* line 73
ServeStale(t) ==
    /\ pc[t] = "L73"
    /\ ReturnCached(t, "stale")
    /\ UNCHANGED <<rate_cache, clock, request, locals, response, fetches, outcome, observed,
                   cached_from>>


(***************************************************************************)
(* The handlers, after get_exchange_rates has returned.  Each reads        *)
(* rate_cache once more, for timestamp_cached.                             *)
(***************************************************************************)
\* NoRatesAtAll with the "not" left out
NoRatesAtAllInverted(r) == StrTruthy(r.error) /\ DictTruthy(r.rates)

\* error and not rates
NoRatesAtAll(r) == StrTruthy(r.error) /\ ~DictTruthy(r.rates)

\* get_rates, lines 96 to 104
RatesResponse(r, cache) ==
    IF r.raised # None THEN UnhandledResponse(TheValue(r.raised))
    ELSE IF NoRatesAtAll(r)
    THEN error_response(<<"Could not retrieve any exchange rates. ">> \o TheValue(r.error), 503)
    ELSE [status_code |-> 200,
          body |-> [status |-> "success",
                    timestamp_cached |-> DictGet(cache, "timestamp"),
                    base_currency |-> "USD",
                    rates |-> r.rates]]

\* UnsupportedCurrency with the two tests in the other order
UnsupportedCurrencyTargetFirst(from, to, rates) ==
    IF to \notin DOMAIN rates
    THEN Some(error_response(<<"Target currency '", to, "' is not supported.">>, 400))
    ELSE IF from \notin DOMAIN rates
    THEN Some(error_response(<<"Source currency '", from, "' is not supported.">>, 400))
    ELSE None

\* convert_currency, lines 136 to 139: the response for a currency that is no
\* key of the table, or None
UnsupportedCurrency(from, to, rates) ==
    IF from \notin DOMAIN rates
    THEN Some(error_response(<<"Source currency '", from, "' is not supported.">>, 400))
    ELSE IF to \notin DOMAIN rates
    THEN Some(error_response(<<"Target currency '", to, "' is not supported.">>, 400))
    ELSE None

\* convert_currency, lines 115 to 164: the answer of the handler whose call
\* of get_exchange_rates gave r
ConvertResponse(args, r, cache) ==
    LET from == from_currency(args)
        to == to_currency(args)
        rates == r.rates
    IN  IF Validate(args) # None
        THEN TheValue(Validate(args))
        ELSE IF r.raised # None
        THEN error_response(<<"Internal Server Error: ", TheValue(r.raised)>>, 500)
        ELSE IF NoRatesAtAll(r)
        THEN error_response(<<"Could not retrieve exchange rates needed for conversion. ">>
                            \o TheValue(r.error), 503)
        ELSE IF UnsupportedCurrency(from, to, rates) # None
        THEN TheValue(UnsupportedCurrency(from, to, rates))
        ELSE LET rate_from_usd == DictGetDefault(rates, from, RateOne)
                 rate_to_target == DictGetDefault(rates, to, RateOne)
             IN  IF rate_from_usd = 0
                 THEN error_response(<<"Internal Server Error: ", "ZeroDivisionError">>, 500)
                 ELSE [status_code |-> 200,
                       body |-> [status |-> "success",
                                 from_currency |-> from,
                                 to_currency |-> to,
                                 original_amount |-> amount(args),
                                 converted_amount |->
                                     ConvertedAmount(amount(args), rate_from_usd, rate_to_target),
                                 rate_used |-> RateUsed(rate_from_usd, rate_to_target),
                                 timestamp_cached |-> DictGet(cache, "timestamp")]]

Respond(t) ==
    /\ pc[t] = "ret"
    /\ response' = [response EXCEPT ![t] =
           IF request[t].route = "/rates" THEN RatesResponse(returned[t], rate_cache)
           ELSE ConvertResponse(request[t].args, returned[t], rate_cache)]
    /\ pc' = [pc EXCEPT ![t] = "done"]
    /\ current_time' = [current_time EXCEPT ![t] = 0]
    /\ new_rates' = [new_rates EXCEPT ![t] = EmptyDict]
    /\ error_msg' = [error_msg EXCEPT ![t] = None]
    /\ UNCHANGED <<rate_cache, clock, request, returned, fetches, outcome, path, observed,
                   cached_from, returned_from>>

(***************************************************************************)
(* Specifications.  Spec: the threads of the server serve requests         *)
(* concurrently.  SeqSpec: one thread serves one request after the other,  *)
(* with every combination of parameters.                                   *)
(***************************************************************************)
Step(t, R, O) ==
    \/ \E r \in R : Begin(t, r)
    \/ CheckCache(t)
    \/ ServeCached(t)
    \/ \E o \in O : Fetch(t, o)
    \/ ClearCache(t)
    \/ StoreTimestamp(t)
    \/ StoreRates(t)
    \/ CheckFallback(t)
    \/ ServeStale(t)
    \/ Respond(t)

Next == Tick \/ \E t \in Threads : Step(t, Requests, Outcomes)

Spec == Init /\ [][Next]_vars

SeqNext == Tick \/ Step(1, AllRequests, AllOutcomes)

SeqSpec == Init /\ [][SeqNext]_vars


(***************************************************************************)
(* Properties.                                                             *)
(***************************************************************************)
\* a cache that holds a whole snapshot: a timestamp and its table of rates
IsSnapshot(cache) == DOMAIN cache = {"timestamp", "rates"}

\* thread t takes a step from program counter a to program counter b
Moves(t, a, b) == pc[t] = a /\ pc'[t] = b

\* the call of thread t tested a whole snapshot at its last test of the cache
SawSnapshot(t) == observed[t] # None /\ IsSnapshot(TheValue(observed[t]))

\* a payload the fetch is meant to accept: result 'success' and a table of
\* conversion rates that is not empty
Acceptable(data) ==
    data.result = Some("success") /\ data.conversion_rates \notin {None, Some(EmptyDict)}

\* the tables a successful fetch may store
ValidTables ==
    { WithBase(ConversionRates(o.data), BaseCode(o.data))
        : o \in {x \in AllOutcomes \cup Outcomes : x.kind = "json" /\ Acceptable(x.data)} }

\* the fetch of the call of thread t ended in a payload that is not acceptable
PayloadRejected(t) ==
    /\ outcome[t] # None
    /\ TheValue(outcome[t]).kind = "json"
    /\ ~Acceptable(TheValue(outcome[t]).data)

\* the fetch of the call of thread t raised a RequestException
FetchRaised(t) == outcome[t] # None /\ TheValue(outcome[t]).kind = "exception"

\* C1.  Cache hit: a call that finds a snapshot younger than CACHE_DURATION
\* (a whole snapshot at the test of line 31) makes no network request,
\* returns the table of the snapshot with error None and leaves rate_cache
\* as it is.
C1_CacheHit ==
    [][\A t \in Threads :
        /\ (pc[t] = "L31" /\ pc'[t] # "L31" /\ IsSnapshot(rate_cache)
                /\ current_time[t] < rate_cache["timestamp"] + CACHE_DURATION)
           => (pc'[t] = "L33" /\ rate_cache' = rate_cache)
        /\ (Moves(t, "L33", "ret") /\ SawSnapshot(t)
                /\ current_time[t] < TheValue(observed[t])["timestamp"] + CACHE_DURATION)
           => /\ fetches'[t] = 0
              /\ "rates" \in DOMAIN rate_cache
              /\ returned'[t] = ReturnValue(rate_cache["rates"], None)
              /\ rate_cache' = rate_cache]_vars

\* C2.  Stale fallback: a call whose fetch raised and that finds a snapshot at
\* line 71 returns the table of the snapshot with error None.
C2_StaleFallback ==
    [][\A t \in Threads :
        /\ (pc[t] = "L71" /\ pc'[t] # "L71" /\ IsSnapshot(rate_cache))
           => pc'[t] = "L73"
        /\ (Moves(t, "L73", "ret") /\ SawSnapshot(t))
           => /\ "rates" \in DOMAIN rate_cache
              /\ returned'[t] = ReturnValue(rate_cache["rates"], None)]_vars

\* C3.  Atomic replacement: no call tests a cache that holds a timestamp
\* without its table, and no call fails with KeyError reading the cache.
C3_AtomicReplacement ==
    \A t \in Threads :
        /\ observed[t] # None => DOMAIN TheValue(observed[t]) # {"timestamp"}
        /\ returned[t].raised # Some("KeyError")

\* C4.  Failed fetches never mutate the snapshot: no step of a call after a
\* fetch that raised or whose payload was rejected changes rate_cache, and
\* every step that changes rate_cache belongs to a call that stores the
\* table of an acceptable payload.
C4_FailedFetchKeepsSnapshot ==
    [][/\ \A t \in Threads :
            (pc'[t] # pc[t] /\ (FetchRaised(t)' \/ PayloadRejected(t)'))
            => rate_cache' = rate_cache
       /\ rate_cache' # rate_cache
            => \E t \in Threads :
                  /\ pc[t] \in {"L59", "L60", "L61"}
                  /\ pc'[t] # pc[t]
                  /\ new_rates[t] \in ValidTables]_vars

\* C4: a call whose payload was rejected has returned and the snapshot it
\* tested at line 31 is still the cache.
C4_Witness ==
    \E t \in Threads :
        /\ pc[t] = "ret"
        /\ PayloadRejected(t)
        /\ SawSnapshot(t)
        /\ rate_cache = TheValue(observed[t])

\* C5.  Snapshot invariant: a cached table that is not empty maps USD to 1.0.
C5_BaseIsUSD ==
    ("rates" \in DOMAIN rate_cache /\ DictTruthy(rate_cache["rates"]))
    => ("USD" \in DOMAIN rate_cache["rates"] /\ rate_cache["rates"]["USD"] = RateOne)

\* C6.  Payload failure: a call whose payload was rejected returns an empty
\* table and an error that is not empty, its fetch step leaves rate_cache as
\* it is, and its request is answered 503.
C6_PayloadFailure ==
    /\ [](\A t \in Threads :
            (pc[t] \in {"ret", "done"} /\ PayloadRejected(t))
            => /\ returned[t].raised = None
               /\ returned[t].rates = EmptyDict
               /\ StrTruthy(returned[t].error)
               /\ pc[t] = "done" => response[t].status_code = 503)
    /\ [][\A t \in Threads :
            (pc[t] = "L38" /\ PayloadRejected(t)')
            => (pc'[t] = "ret" /\ rate_cache' = rate_cache)]_vars

\* C6: a request is answered 503 after a rejected payload although its call
\* found an expired snapshot at line 31.
C6_Witness ==
    \E t \in Threads :
        /\ pc[t] = "done"
        /\ PayloadRejected(t)
        /\ response[t].status_code = 503
        /\ SawSnapshot(t)
        /\ clock >= TheValue(observed[t])["timestamp"] + CACHE_DURATION
        /\ rate_cache = TheValue(observed[t])

\* C7.  No snapshot and failed fetch: a call whose fetch raised and that finds
\* rate_cache empty at line 71 (a cache that holds anything takes the branch
\* of C2) returns an empty table and an error that is
\* not empty, and its request is answered 503 with an error envelope whose
\* message ends in that error.
C7_NoSnapshotFailedFetch ==
    \A t \in Threads :
        (pc[t] \in {"ret", "done"} /\ FetchRaised(t) /\ observed[t] = Some(EmptyDict))
        => /\ returned[t].raised = None
           /\ returned[t].rates = EmptyDict
           /\ StrTruthy(returned[t].error)
           /\ pc[t] = "done"
                => /\ response[t].status_code = 503
                   /\ response[t].body.status = "error"
                   /\ Tail(response[t].body.message) = TheValue(returned[t].error)

\* C7: /convert with valid parameters is answered 503 after a fetch that
\* raised with nothing in the cache.
C7_Witness ==
    \E t \in Threads :
        /\ pc[t] = "done"
        /\ request[t].route = "/convert"
        /\ FetchRaised(t)
        /\ observed[t] = Some(EmptyDict)
        /\ response[t].status_code = 503

\* C8.  Timestamp consistency: timestamp_cached of a success response of
\* /rates or /convert is the start time of the call that fetched the table
\* the response was made from.
C8_TimestampOfTableUsed ==
    \A t \in Threads :
        (pc[t] = "done" /\ request[t].route \in {"/rates", "/convert"}
            /\ response[t].status_code = 200)
        => response[t].body.timestamp_cached = returned_from[t]

\* an amount that is a number strictly greater than zero
PositiveNumber(a) == a.kind = "inf" \/ (a.kind = "num" /\ a.val > 0)

\* the parameters of a /convert request that the validation is meant to
\* refuse: from or to empty, amount missing, no number, or not above zero
InvalidInput(args) ==
    \/ args.from \in {None, Some("")}
    \/ args.to \in {None, Some("")}
    \/ args.amount = None
    \/ ~ParseFloat(TheValue(args.amount)).ok
    \/ ~PositiveNumber(ParseFloat(TheValue(args.amount)).value)

\* C9.  Input validation: a /convert request with invalid parameters is
\* answered 400, and a success response is given only for an amount that is
\* a number strictly greater than zero.
C9_InputValidation ==
    \A t \in Threads :
        (pc[t] = "done" /\ request[t].route = "/convert")
        => /\ InvalidInput(request[t].args) => response[t].status_code = 400
           /\ response[t].status_code = 200
                => /\ ~InvalidInput(request[t].args)
                   /\ PositiveNumber(response[t].body.original_amount)

\* get_exchange_rates returned a table to the handler of thread t
RatesObtained(t) ==
    /\ pc[t] = "done"
    /\ returned[t].raised = None
    /\ DictTruthy(returned[t].rates)

\* C10.  Unsupported currency: when rates were obtained and from or to is no
\* key of the table, /convert answers 400 with a message that names the
\* missing code, the source code when both are missing; a success response
\* has both codes in the table.
C10_UnsupportedCurrency ==
    \A t \in Threads :
        (request[t].route = "/convert" /\ RatesObtained(t))
        => LET from == Upper(ArgOrEmpty(request[t].args.from))
               to == Upper(ArgOrEmpty(request[t].args.to))
               rates == returned[t].rates
               missing == IF from \notin DOMAIN rates THEN from ELSE to
           IN  /\ (from \notin DOMAIN rates \/ to \notin DOMAIN rates)
                    => /\ response[t].status_code = 400
                       /\ response[t].body.status = "error"
                       /\ Len(response[t].body.message) = 3
                       /\ response[t].body.message[2] = missing
               /\ response[t].status_code = 200
                    => (from \in DOMAIN rates /\ to \in DOMAIN rates)

\* C10: both codes are missing from the table and differ.
C10_Witness ==
    \E t \in Threads :
        /\ request[t].route = "/convert"
        /\ RatesObtained(t)
        /\ Upper(ArgOrEmpty(request[t].args.from)) \notin DOMAIN returned[t].rates
        /\ Upper(ArgOrEmpty(request[t].args.to)) \notin DOMAIN returned[t].rates
        /\ request[t].args.from # request[t].args.to
        /\ response[t].status_code = 400

\* The distance between two integers.
Distance(a, b) == IF a < b THEN b - a ELSE a - b

\* A successful conversion of a positive finite amount by thread t
Converted(t) ==
    /\ pc[t] = "done"
    /\ request[t].route = "/convert"
    /\ response[t].status_code = 200
    /\ response[t].body.original_amount.kind = "num"
    /\ response[t].body.original_amount.val > 0

\* C11.  Conversion formula: a successful /convert of an amount > 0 between
\* two keys of the rate table returns converted_amount equal to
\* (amount / rates[from]) * rates[to] rounded to 4 decimals and rate_used equal
\* to rates[to] / rates[from] rounded to 6 decimals: each is within half a
\* unit of its last decimal of the exact quotient.  With the table
\* {USD: 1.0, EUR: 0.9}, 100 USD to EUR gives 90.0 and 0.9.
C11_ConversionFormula ==
    \A t \in Threads :
        Converted(t)
        => LET rates == returned[t].rates
               from == response[t].body.from_currency
               to == response[t].body.to_currency
               a == response[t].body.original_amount.val
               c == response[t].body.converted_amount
               u == response[t].body.rate_used
           IN  /\ from \in DOMAIN rates /\ to \in DOMAIN rates
               /\ from = Upper(ArgOrEmpty(request[t].args.from))
               /\ to = Upper(ArgOrEmpty(request[t].args.to))
               /\ c.kind = "num"
               /\ 2 * Distance(c.val * rates[from], a * rates[to]) <= rates[from]
               /\ 2 * Distance(u * rates[from], rates[to] * Pow10(RateDigits))
                     <= rates[from]
               /\ (rates[from] = RateOne /\ rates[to] = 9 /\ a = 100 * Pow10(AmountDigits))
                    => (c.val = 90 * Pow10(AmountDigits) /\ u = 9 * Pow10(RateDigits - 1))

\* C11: an amount with decimals is converted from a currency whose rate is
\* not 1.0, and the quotient does not end within 4 decimals.
C11_Witness ==
    \E t \in Threads :
        /\ Converted(t)
        /\ returned[t].rates[response[t].body.from_currency] = 9
        /\ returned[t].rates[response[t].body.to_currency] = RateOne
        /\ response[t].body.original_amount.val = 25000
        /\ response[t].body.converted_amount = Num(27778)
        /\ response[t].body.rate_used = 1111111

\* C12.  Identity conversion: for every code that is a key of the rate table
\* and every amount > 0, /convert with from == to answers with
\* converted_amount equal to the amount and rate_used equal to 1.0.
C12_IdentityConversion ==
    \A t \in Threads :
        (/\ request[t].route = "/convert"
         /\ RatesObtained(t)
         /\ Validate(request[t].args) = None
         /\ PositiveNumber(amount(request[t].args))
         /\ from_currency(request[t].args) = to_currency(request[t].args)
         /\ from_currency(request[t].args) \in DOMAIN returned[t].rates)
        => /\ response[t].status_code = 200
           /\ response[t].body.converted_amount = amount(request[t].args)
           /\ response[t].body.rate_used = Pow10(RateDigits)

\* C13.  Root route: GET / is answered 200 with a JSON body that is the price
\* payload of get_price, which has the key 'bitcoin'.
C13_RootRoute ==
    \A t \in Threads :
        (pc[t] = "done" /\ request[t].route = "/")
        => /\ response[t].status_code = 200
           /\ "bitcoin" \in DOMAIN response[t].body

\* The snapshot made of a table and a timestamp
Snapshot(rates, timestamp) ==
    [k \in {"timestamp", "rates"} |-> IF k = "timestamp" THEN timestamp ELSE rates]

\* C14.  Successful refresh: a call that found no snapshot or an expired one
\* and whose fetch returned a valid payload has the payload's table with its
\* base_code set to 1.0, keeps the time it read when it started through the
\* fetch, and with its last store (line 61) leaves rate_cache equal to the
\* snapshot of that table and that time, and returns that table with error
\* None.
C14_SuccessfulRefresh ==
    [][\A t \in Threads :
        /\ (Moves(t, "idle", "L31") \/ Moves(t, "done", "L31"))
             => current_time'[t] = clock
        /\ pc[t] \in {"L31", "L38", "L59", "L60", "L61"}
             => current_time'[t] = current_time[t]
        /\ Moves(t, "L61", "ret")
             => LET data == TheValue(outcome[t]).data
                    base_code == IF data.base_code = None THEN "USD"
                                 ELSE TheValue(data.base_code)
                    table == new_rates[t]
                IN  /\ observed[t] # None
                    /\ ~CacheValid(TheValue(observed[t]), current_time[t])
                    /\ Acceptable(data)
                    /\ DOMAIN table = DOMAIN TheValue(data.conversion_rates) \cup {base_code}
                    /\ table[base_code] = RateOne
                    /\ \A c \in DOMAIN table \ {base_code} :
                         table[c] = TheValue(data.conversion_rates)[c]
                    /\ rate_cache' = Snapshot(table, current_time[t])
                    /\ returned'[t] = ReturnValue(table, None)]_vars

\* The cache that thread t tested held no whole snapshot, or an expired one.
SawMissingOrExpired(t) ==
    /\ observed[t] # None
    /\ \/ ~IsSnapshot(TheValue(observed[t]))
       \/ current_time[t] >= TheValue(observed[t])["timestamp"] + CACHE_DURATION

\* C15.  Lazy single fetch: the count of network requests of a thread changes
\* only when it starts a request (to zero) or when its get_exchange_rates
\* call, which saw a missing or expired snapshot at line 31, makes its one
\* request at line 38; no call makes a second one, and /health makes none.
C15_LazySingleFetch ==
    [][\A t \in Threads :
        /\ fetches'[t] # fetches[t]
             => \/ pc[t] \in {"idle", "done"} /\ fetches'[t] = 0
                \/ /\ Moves(t, "L38", pc'[t])
                   /\ request[t].route \in {"/rates", "/convert"}
                   /\ SawMissingOrExpired(t)
                   /\ fetches[t] = 0 /\ fetches'[t] = 1
        /\ Moves(t, "L31", "L38") => fetches[t] = 0
        /\ pc[t] \notin {"idle", "done", "L38"} => fetches'[t] = fetches[t]
        /\ request'[t].route = "/health" => (fetches'[t] = 0 /\ pc'[t] = "done")]_vars

\* C15: one thread has fetched after it saw an expired snapshot, while
\* the other has answered /health without a fetch.
C15_Witness ==
    \E t, u \in Threads :
        /\ pc[t] = "L59" /\ fetches[t] = 1
        /\ SawSnapshot(t) /\ SawMissingOrExpired(t)
        /\ pc[u] = "done" /\ request[u].route = "/health" /\ fetches[u] = 0
        /\ response[u] = HealthResponse

\* C16.  Under sequential execution a call of get_exchange_rates returns
\* error None exactly when the table it returns is non-empty, so that the
\* handlers' test "error and not rates" is the test "error"; and every stored
\* snapshot has a non-empty table.
C16_RatesXorError ==
    /\ \A t \in Threads :
         (pc[t] \in {"ret", "done"} /\ returned[t].raised = None)
         => /\ returned[t].error = None <=> DictTruthy(returned[t].rates)
            /\ NoRatesAtAll(returned[t]) <=> StrTruthy(returned[t].error)
            /\ StrTruthy(returned[t].error) <=> returned[t].error # None
    /\ "rates" \in DOMAIN rate_cache => DictTruthy(rate_cache["rates"])
    /\ \A t \in Threads : pc[t] \in {"L59", "L60", "L61"} => DictTruthy(new_rates[t])

\* C16: a fetch failed and the call returned the cached table with no error.
C16_Witness ==
    \E t \in Threads :
        /\ pc[t] = "ret" /\ path[t] = "stale"
        /\ FetchRaised(t)
        /\ returned[t].raised = None
        /\ returned[t].error = None
        /\ DictTruthy(returned[t].rates)
        /\ IsSnapshot(rate_cache)

\* A 400 answer of the validation of /convert (not of the currency lookup)
InvalidInputResponse(resp) ==
    /\ resp.status_code = 400
    /\ resp.body.message \in
         { <<"Missing required query parameters: 'from', 'to', and 'amount'.">>,
           <<"'amount' parameter must be a valid number.">>,
           <<"Amount must be a positive number.">> }

\* C17.  Validation precedes the rate lookup: a /convert request that is
\* answered 400 InvalidInput is answered in the step in which it arrives,
\* without a call of get_exchange_rates (no test of the cache, no network
\* request, nothing returned) and with rate_cache left as it was.
C17_ValidationFirst ==
    [][\A t \in Threads :
        (/\ pc'[t] = "done"
         /\ request'[t].route = "/convert"
         /\ InvalidInputResponse(response'[t]))
        => /\ pc[t] \in {"idle", "done"}
           /\ rate_cache' = rate_cache
           /\ fetches'[t] = 0
           /\ outcome'[t] = None
           /\ observed'[t] = None
           /\ returned'[t] = NoReturn]_vars

\* C17: a request with an amount that is not positive is answered 400 with
\* no fetch while the snapshot is expired.
C17_Witness ==
    \E t \in Threads :
        /\ pc[t] = "done"
        /\ request[t].route = "/convert"
        /\ request[t].args.amount = Some(<<"-", "5">>)
        /\ InvalidInputResponse(response[t])
        /\ fetches[t] = 0
        /\ IsSnapshot(rate_cache)
        /\ clock >= rate_cache["timestamp"] + CACHE_DURATION

\* C18.  The timestamp of the snapshot never decreases across replacements:
\* in every interleaving, a call that replaces the snapshot (the clear of line
\* 59, then the store of line 60) stores a timestamp that is not less than
\* the one it removes or overwrites, so that the snapshot of a fetch that
\* started later is never overwritten by one that started earlier.
C18_TimestampMonotone ==
    [][\A t \in Threads :
        /\ (Moves(t, "L59", "L60") /\ "timestamp" \in DOMAIN rate_cache)
             => current_time[t] >= rate_cache["timestamp"]
        /\ (Moves(t, "L60", "L61") /\ "timestamp" \in DOMAIN rate_cache)
             => rate_cache'["timestamp"] >= rate_cache["timestamp"]]_vars

\* The cache holds a whole snapshot that is expired at the time now.
ExpiredSnapshot(cache, now) ==
    IsSnapshot(cache) /\ now >= cache["timestamp"] + CACHE_DURATION

\* C19.  Stale fallback does not renew freshness.  In every interleaving:
\* a call that serves an expired snapshot by the fallback of line 73 returns
\* its table with no error and leaves rate_cache as it is, still expired;
\* a call that tests an expired snapshot at line 31 goes on to its network
\* request; a call whose request returns a valid payload, and no other,
\* goes through lines 59 to 61, stores its new table and returns it with no
\* error; the table in rate_cache changes only by such a store, and a call
\* served from rate_cache returns the table that is there at that moment,
\* so that a table that was replaced is not served again.
C19_StaleNotRenewed ==
    [][/\ \A t \in Threads :
          /\ (Moves(t, "L73", "ret") /\ ExpiredSnapshot(rate_cache, current_time[t]))
               => /\ rate_cache' = rate_cache
                  /\ ExpiredSnapshot(rate_cache', clock')
                  /\ returned'[t] = ReturnValue(rate_cache["rates"], None)
          /\ (pc[t] = "L31" /\ pc'[t] # "L31"
                /\ ExpiredSnapshot(rate_cache, current_time[t]))
               => pc'[t] = "L38"
          /\ (pc[t] = "L38" /\ pc'[t] # "L38")
               => /\ fetches'[t] = fetches[t] + 1
                  /\ outcome'[t] # None
                  /\ pc'[t] = "L59"
                       <=> /\ TheValue(outcome'[t]).kind = "json"
                           /\ Acceptable(TheValue(outcome'[t]).data)
          /\ pc[t] = "L59" => pc'[t] \in {"L59", "L60"}
          /\ pc[t] = "L60" => pc'[t] \in {"L60", "L61"}
          /\ pc[t] = "L61" => pc'[t] \in {"L61", "ret"}
          /\ Moves(t, "L61", "ret")
               => /\ rate_cache'["rates"] = new_rates[t]
                  /\ returned'[t] = ReturnValue(new_rates[t], None)
          /\ ((Moves(t, "L33", "ret") \/ Moves(t, "L73", "ret"))
                /\ returned'[t].raised = None)
               => /\ "rates" \in DOMAIN rate_cache
                  /\ returned'[t] = ReturnValue(rate_cache["rates"], None)
       /\ ("rates" \in DOMAIN rate_cache'
            /\ ("rates" \in DOMAIN rate_cache => rate_cache'["rates"] # rate_cache["rates"]))
           => \E u \in Threads :
                 Moves(u, "L61", "ret") /\ rate_cache'["rates"] = new_rates[u]]_vars

\* C19: one call was served the expired table by the fallback; a later fetch
\* has returned a valid payload, and its call has replaced the snapshot and
\* returned the new table.
C19_Witness ==
    \E t, u \in Threads :
        /\ pc[t] \in {"ret", "done"} /\ path[t] = "stale"
        /\ FetchRaised(t)
        /\ returned[t].raised = None
        /\ pc[u] = "ret" /\ path[u] = "fetched"
        /\ returned_from[t] # None
        /\ returned_from[u] # None
        /\ TheValue(returned_from[t]) + CACHE_DURATION <= TheValue(returned_from[u])
        /\ rate_cache = Snapshot(returned[u].rates, current_time[u])
        /\ returned[t].rates # returned[u].rates

=============================================================================
